---- MODULE Spec2Model ----
(***************************************************************************)
(* DepthDesktop: the head-tracking frame loop (faceTracking.py), the       *)
(* tracker thread and the gesture handlers of the two front ends (app.py,  *)
(* 3DTest.py).                                                             *)
(*                                                                         *)
(* Numbers.  A normalized landmark coordinate is modelled as a pair        *)
(* <<k, e>> standing for the real number k/Den + e*delta, where delta is a *)
(* positive amount smaller than the tolerance of math.isclose (relative    *)
(* 1e-9) and smaller than 1/(Den*dimension); e is -1, 0 or 1.  So <<Den,1>>*)
(* is a value just above 1.0 that math.isclose(1, value) still accepts,    *)
(* and <<0,-1>> is a value just below 0.0.                                 *)
(* Time is in milliseconds.  Pixel coordinates are integers.               *)
(***************************************************************************)
EXTENDS Integers, Sequences, FiniteSets, TLC

\* ---------------------------------------------------------------- bounds
Den == 16           \* grid of the normalized coordinates: k/Den
FrameW == 64        \* frame.shape width of the camera frames
FrameH == 48        \* frame.shape height of the camera frames
MaxDim == 4         \* image sizes 1..MaxDim for the projection on its own
ClockStep == 100    \* the clock advances in steps of this many ms
MaxTime == 1200     \* the clock stops advancing here
PipeMaxTime == 800  \* the same, for a front end run with its tracker thread
MaxQueue == 1       \* updates emitted by the tracker thread, not yet handled
MaxEntries == 1     \* entries of a listed directory (besides "..")
MaxContexts == 2    \* contexts moderngl.create_context() can create
MaxSide == 1        \* widget width and height 0..MaxSide

\* ------------------------------------------------------ program constants
THRESHOLD_PX == 15      \* faceTracking.py:114 and :118
NAV_MS == 500           \* app.py:126 and :130
LAUNCH_MS == 800        \* app.py:134
NAV3D_MS == 600         \* 3DTest.py:171
LAUNCH3D_MS == 1000     \* 3DTest.py:175

VARIABLES
    proj,           \* the last call of _normalized_to_pixel_coordinates
    pc,             \* frame loop: "read", "waitkey", "done"
    last_mid,       \* faceTracking.py: last_mid
    out,            \* what the last frame computed and drew
    keyq,           \* 'q' pressed and not yet seen by cv2.waitKey
    released,       \* cap.release(), destroyAllWindows(), landmarker.close() ran
    exit_by,        \* why the loop ended: "none", "read", "key", "error"
    seeded,         \* some frame with a valid estimate has been processed
    since_stop,     \* frames processed since the stop was raised (0, 1, 2 = more)
    ui,             \* the front end that runs: "app" (app.py), "3DTest" (3DTest.py)
    now,            \* datetime.now(), in ms
    invalidTime,    \* the handler's cooldown expiry
    current_index,  \* index of the selected app
    apps,           \* self.apps: the path kind of each entry
    shadow,         \* the pose last applied (card shadows; camera and light)
    handled,        \* the arguments of the last handle_tracker_update call
    acted,          \* what that call did
    queue,          \* data_received emissions not yet delivered to the slot
    exited,         \* the front end has quit
    renderer,       \* renderer.py: the fields of the Renderer
    contexts,       \* contexts moderngl.create_context() has created so far
    call,           \* the last call on the renderer and how it ended
    tokens,         \* main_window.py: RenderWidget.tokens, bottom to top
    _dragging_token \* RenderWidget._dragging_token: None or <<icon>>

vars == <<proj, pc, last_mid, out, keyq, released, exit_by, seeded, since_stop,
          ui, now, invalidTime, current_index, apps, shadow, handled, acted,
          queue, exited, renderer, contexts, call, tokens, _dragging_token>>
loopVars == <<pc, last_mid, out, keyq, released, exit_by, seeded, since_stop>>
uiVars == <<ui, now, invalidTime, current_index, apps, shadow, handled, acted,
            queue, exited>>
widgetVars == <<renderer, contexts, call, tokens, _dragging_token>>

Min(a, b) == IF a < b THEN a ELSE b
Abs(a) == IF a < 0 THEN -a ELSE a

\* None of Python; a tuple is truthy exactly when it is not this one.
None == <<>>

\* ------------------------------------------------- faceTracking.py:16-26
\* value > 0
GtZero(v) == v[1] > 0 \/ (v[1] = 0 /\ v[2] > 0)
\* value < 1
LtOne(v) == v[1] < Den \/ (v[1] = Den /\ v[2] < 0)
\* math.isclose(0, value): relative tolerance only, so only value == 0
IsCloseZero(v) == v[1] = 0 /\ v[2] = 0
\* math.isclose(1, value): |1 - value| <= 1e-9 * max(1, |value|)
IsCloseOne(v) == v[1] = Den

is_valid_normalized_value_strict(v) ==
    (GtZero(v) \/ IsCloseZero(v)) /\ (LtOne(v) \/ (v[1] = Den /\ v[2] = 0))
is_valid_normalized_value(v) ==
    (GtZero(v) \/ IsCloseZero(v)) /\ (LtOne(v) \/ IsCloseOne(v))

\* math.floor(value * dimension), for value >= 0
FloorMul(v, dim) ==
    LET q == (v[1] * dim) \div Den
    IN  IF (v[1] * dim) % Den = 0 /\ v[2] < 0 THEN q - 1 ELSE q

normalized_to_pixel_unclamped(nx, ny, width, height) ==
    IF ~(is_valid_normalized_value(nx) /\ is_valid_normalized_value(ny))
    THEN None
    ELSE <<FloorMul(nx, width), FloorMul(ny, height)>>
normalized_to_pixel_either_axis(nx, ny, width, height) ==
    IF ~(is_valid_normalized_value(nx) \/ is_valid_normalized_value(ny))
    THEN None
    ELSE <<Min(FloorMul(nx, width), width - 1),
           Min(FloorMul(ny, height), height - 1)>>
_normalized_to_pixel_coordinates(nx, ny, width, height) ==
    IF ~(is_valid_normalized_value(nx) /\ is_valid_normalized_value(ny))
    THEN None
    ELSE <<Min(FloorMul(nx, width), width - 1),
           Min(FloorMul(ny, height), height - 1)>>

\* ------------------------------------------------ faceTracking.py:91-152
CALIBRATION_CONSTANT == 327     \* faceTracking.py:107
HALF_FOV_X == 35                \* faceTracking.py:125
FULL_FOV_X == 70
HALF_FOV_Y == 22                \* faceTracking.py:126
FULL_FOV_Y == 44

\* What one pass of the loop body computed and drew on annotated_image.
\*   face: detection_result.face_landmarks is not empty
\*   path: how far the nested guards let the frame go
\*   delta: <<last_mid[0] - mid_px[0]>>, the difference lines 114 and 118
\*         compare with the threshold; None when it was not computed
\*   pose: <<angleX * width, angleY * height, pixel_distance^2>>, the exact
\*         integers the displayed reals are functions of; None when no pose
\*         was computed
NoOutput == [face |-> FALSE, path |-> "none", right_px |-> None,
             left_px |-> None, delta |-> None, left |-> FALSE,
             right |-> FALSE, pose |-> None, error |-> FALSE]

\* math.hypot(dx, dy) squared
PixelDistanceSq(l, r) ==
    (l[1] - r[1]) * (l[1] - r[1]) + (l[2] - r[2]) * (l[2] - r[2])

\* line 101: if right_px and left_px
BothPixelsAlways(r, l) == TRUE
BothPixels(r, l) == r # None /\ l # None

\* line 105: if pixel_distance > 0
PixelDistanceAny(l, r) == TRUE
PixelDistancePositive(l, r) == PixelDistanceSq(l, r) > 0

\* lines 114 and 118
GoingLeftNoThreshold(lm, mid) == lm[1] - mid[1] > 0
GoingLeft(lm, mid) == lm[1] - mid[1] > THRESHOLD_PX
GoingRight(lm, mid) == lm[1] - mid[1] < -THRESHOLD_PX

\* lines 110-112: int((a + b) / 2) of two pixel coordinates (both >= 0)
Midpoint(l, r) == <<(l[1] + r[1]) \div 2, (l[2] + r[2]) \div 2>>

\* lines 125-126, scaled by the frame size to stay in the integers
Pose(l, r) ==
    LET mid == Midpoint(l, r)
    IN  <<HALF_FOV_X * FrameW - mid[1] * FULL_FOV_X,
          HALF_FOV_Y * FrameH - mid[2] * FULL_FOV_Y,
          PixelDistanceSq(l, r)>>

\* line 152: last_mid = mid_px, whatever lines 114-120 found
LastMidOnGesture(lm, mid, gesture) == IF gesture THEN mid ELSE lm
LastMidUpdate(lm, mid, gesture) == mid

\* A frame without a face: nothing is computed (line 91 is false).
NoFaceResets(lm) ==
    [out |-> [NoOutput EXCEPT !.path = "noface"], last_mid |-> <<0, 0>>]
NoFace(lm) ==
    [out |-> [NoOutput EXCEPT !.path = "noface"], last_mid |-> lm]

\* The body of "if detection_result.face_landmarks:" (lines 92-152).
\* Subscripting None (line 103) raises TypeError, 327 / 0 (line 107) raises
\* ZeroDivisionError; with the guards as written neither is reached.
\* cos(rad_x) * cos(rad_y) is never 0: |angleX| <= 35 and |angleY| <= 22.
Face(frame, lm) ==
    LET right_px == _normalized_to_pixel_coordinates(frame.r[1], frame.r[2],
                                                     FrameW, FrameH)
        left_px == _normalized_to_pixel_coordinates(frame.l[1], frame.l[2],
                                                    FrameW, FrameH)
        seen == [NoOutput EXCEPT !.face = TRUE, !.right_px = right_px,
                                 !.left_px = left_px]
    IN  IF ~BothPixels(right_px, left_px)
        THEN [out |-> [seen EXCEPT !.path = "nopx"], last_mid |-> lm]
        ELSE IF right_px = None \/ left_px = None
        THEN [out |-> [seen EXCEPT !.path = "error", !.error = TRUE],
              last_mid |-> lm]
        ELSE IF ~PixelDistancePositive(left_px, right_px)
        THEN [out |-> [seen EXCEPT !.path = "zero"], last_mid |-> lm]
        ELSE IF PixelDistanceSq(left_px, right_px) = 0
        THEN [out |-> [seen EXCEPT !.path = "error", !.error = TRUE],
              last_mid |-> lm]
        ELSE LET mid_px == Midpoint(left_px, right_px)
                 gesture == GoingLeft(lm, mid_px) \/ GoingRight(lm, mid_px)
             IN  [out |-> [seen EXCEPT !.path = "estimate",
                                       !.delta = <<lm[1] - mid_px[1]>>,
                                       !.left = GoingLeft(lm, mid_px),
                                       !.right = GoingRight(lm, mid_px),
                                       !.pose = Pose(left_px, right_px)],
                  last_mid |-> LastMidUpdate(lm, mid_px, gesture)]

ProcessFrame(frame, lm) == IF frame.face THEN Face(frame, lm) ELSE NoFace(lm)


\* ------------------------------------------- rendering/renderer.py:88-296
\* A resource collection is a dict: key -> the context that made the
\* resource.  ctx is 0 for None, n for the n-th context created.
EmptyDict == [k \in {} |-> 0]
Put(d, keys, id) ==
    [k \in (DOMAIN d) \cup keys |-> IF k \in keys THEN id ELSE d[k]]

\* renderer.py:71
_ICON_NAMES == {"browser", "file_sys", "settings", "terminal"}
\* the icon files that exist under _ICONS_DIR (line 233)
IconFiles == {{}, {"browser"}, _ICON_NAMES}

\* renderer.py:102-118 __init__
NewRenderer ==
    [ctx |-> 0, initialized |-> FALSE,
     programs |-> EmptyDict, vaos |-> EmptyDict, vbos |-> EmptyDict,
     textures |-> EmptyDict, framebuffers |-> EmptyDict,
     width |-> 0, height |-> 0, device_pixel_ratio |-> 1,
     viewport |-> None, scene_state |-> None]

\* Where initialize() can raise: moderngl missing or no current GL context
\* (line 130), detect_framebuffer (131), a shader that does not compile
\* (203), numpy missing (210), PIL missing (235).  "none": it returns.
InitFailures ==
    {"none", "create_context", "detect_framebuffer", "_build_programs",
     "_build_geometry", "_build_textures"}

\* line 127: if self._initialized: return
NeverInitialized(r) == FALSE
AlreadyInitialized(r) == r.initialized

\* renderer.py:120-138 initialize.  n: contexts created so far; fail: the
\* place where it raises; icons: the icon files that exist.
initialize(r, n, fail, icons) ==
    LET id == n + 1
        r1 == [r EXCEPT !.ctx = id, !.viewport = None]
        r2 == [r1 EXCEPT !.programs = Put(r.programs, {"token"}, id)]
        r3 == [r1 EXCEPT !.programs = Put(r.programs, {"token", "border"}, id)]
        r4 == [r3 EXCEPT !.vbos = Put(r.vbos, {"quad", "quad_ibo"}, id),
                         !.vaos = Put(r.vaos, {"token", "border"}, id)]
        r5 == [r4 EXCEPT !.textures = Put(r.textures, icons, id),
                         !.initialized = TRUE]
    IN  IF AlreadyInitialized(r)
        THEN [r |-> r, contexts |-> n, result |-> "noop"]
        ELSE CASE fail = "create_context" ->
                    [r |-> r, contexts |-> n, result |-> "raised"]
               [] fail = "detect_framebuffer" ->
                    [r |-> r1, contexts |-> id, result |-> "raised"]
               [] fail = "_build_programs" ->
                    [r |-> r2, contexts |-> id, result |-> "raised"]
               [] fail = "_build_geometry" ->
                    [r |-> r3, contexts |-> id, result |-> "raised"]
               [] fail = "_build_textures" ->
                    [r |-> r4, contexts |-> id, result |-> "raised"]
               [] OTHER ->
                    [r |-> r5, contexts |-> id, result |-> "ok"]

\* renderer.py:140-160 resize
Max0(n) == IF n < 0 THEN 0 ELSE n
resize(r, width, height, ratio) ==
    LET sized == [r EXCEPT !.width = Max0(width), !.height = Max0(height),
                           !.device_pixel_ratio = ratio]
    IN  IF r.ctx = 0
        THEN sized
        ELSE [sized EXCEPT !.viewport = <<0, 0, Max0(width) * ratio,
                                          Max0(height) * ratio>>]

\* renderer.py:175-184 render, with bind_current_framebuffer (162-165) and
\* _draw_scene (251-283).  scene_state is None or <<"tokens">>, the dict
\* {"tokens": the widget's tokens}, whose list is never empty.
render(r) ==
    IF r.ctx = 0
    THEN [r |-> r, result |-> "RuntimeError"]
    ELSE LET bound == [r EXCEPT !.framebuffers =
                                    Put(r.framebuffers, {"screen"}, r.ctx)]
         IN  IF r.scene_state = None \/ r.width = 0 \/ r.height = 0
             THEN [r |-> bound, result |-> "nothing"]
             ELSE IF ~({"token", "border"} \subseteq DOMAIN r.programs)
                     \/ ~({"token", "border"} \subseteq DOMAIN r.vaos)
             THEN [r |-> bound, result |-> "KeyError"]
             ELSE [r |-> bound, result |-> "drew"]

\* renderer.py:186-195 release
release(r) ==
    [r EXCEPT !.framebuffers = EmptyDict, !.textures = EmptyDict,
              !.vaos = EmptyDict, !.vbos = EmptyDict, !.programs = EmptyDict,
              !.ctx = 0, !.initialized = FALSE, !.viewport = None]

\* ----------------------------------------------- ui/main_window.py:14-110
ICONS == <<"browser", "file_sys", "settings", "terminal">>   \* line 14
TOKEN_SIZE == 80        \* main_window.py:15
start_x == 150          \* main_window.py:36
spacing == 120          \* main_window.py:37
start_y == 120          \* main_window.py:38

\* lines 18-27: a Token as constructed
Token(x, y, icon) ==
    [x |-> x, y |-> y, icon |-> icon, size |-> TOKEN_SIZE,
     highlighted |-> FALSE, dragging |-> FALSE,
     _drag_offset_x |-> 0, _drag_offset_y |-> 0]

\* lines 29-31 (2 * |d| <= size is |d| <= size / 2)
hit_test(t, mx, my) ==
    2 * Abs(mx - t.x) <= t.size /\ 2 * Abs(my - t.y) <= t.size

\* lines 34-41
_create_tokens ==
    [i \in 1..Len(ICONS) |-> Token(start_x + (i - 1) * spacing, start_y,
                                   ICONS[i])]

\* line 80: the index of the first hit in reversed(self.tokens), 0 if none
TopmostHit(ts, mx, my) ==
    IF \E i \in 1..Len(ts) : hit_test(ts[i], mx, my)
    THEN CHOOSE i \in 1..Len(ts) :
            /\ hit_test(ts[i], mx, my)
            /\ \A j \in (i + 1)..Len(ts) : ~hit_test(ts[j], mx, my)
    ELSE 0

\* list.remove(x): without the first element equal to x
Remove(ts, x) ==
    LET i == CHOOSE k \in 1..Len(ts) :
                 ts[k] = x /\ \A j \in 1..(k - 1) : ts[j] # x
    IN  [k \in 1..(Len(ts) - 1) |-> IF k < i THEN ts[k] ELSE ts[k + 1]]

\* lines 82-84: the hit token is marked as dragged and keeps where it was
\* grabbed; no other token is touched
Grab(ts, i, mx, my) ==
    [ts EXCEPT ![i] = [ts[i] EXCEPT !.dragging = TRUE,
                                    !._drag_offset_x = mx - ts[i].x,
                                    !._drag_offset_y = my - ts[i].y]]

\* the token self._dragging_token refers to
Dragged(ts, ref) == CHOOSE i \in 1..Len(ts) : ts[i].icon = ref[1]

\* the widget as constructed (lines 45-54) with its renderer
InitWidget ==
    /\ renderer = NewRenderer
    /\ contexts = 0
    /\ call = [op |-> "none", result |-> "none"]
    /\ tokens = _create_tokens
    /\ _dragging_token = None

\* ------------------------------------------ the projection on its own
Normalized == {<<k, e>> : k \in -1..(Den + 1), e \in {-1, 0, 1}}
\* small images, and the 100 x 100 image of the documented example
Dims == (1..MaxDim) \cup {100}
InitRest ==
    /\ pc = "read"
    /\ last_mid = <<0, 0>>
    /\ out = NoOutput
    /\ keyq = FALSE
    /\ released = FALSE
    /\ exit_by = "none"
    /\ seeded = FALSE
    /\ since_stop = 0
    /\ InitWidget

\* app.py:23-57 and 3DTest.py:53-78: the window as constructed.  Browser,
\* Files (whose path is Path.cwd(), a directory), Terminal, Settings.
InitialApps == <<"Browser", "dir", "Terminal", "Settings">>
NoUpdate == [pose |-> None, dx |-> 0, dy |-> 0]
InitUi ==
    /\ now = 0
    /\ invalidTime = 0
    /\ current_index = 0
    /\ apps = InitialApps
    /\ shadow = None
    /\ handled = NoUpdate
    /\ acted = "none"
    /\ queue = <<>>
    /\ exited = FALSE

\* The inputs of one call are drawn at the start; Project applies the function.
InitProj ==
    /\ proj \in [nx : Normalized, ny : Normalized, w : Dims, h : Dims,
                 called : {FALSE}, px : {None}]
    /\ InitRest
    /\ ui = "app" /\ InitUi

Project ==
    /\ ~proj.called
    /\ proj' = [proj EXCEPT !.called = TRUE,
                 !.px = _normalized_to_pixel_coordinates(proj.nx, proj.ny,
                                                         proj.w, proj.h)]
    /\ UNCHANGED <<loopVars, uiVars, widgetVars>>

NextProj == Project

SpecProj == InitProj /\ [][NextProj]_vars

\* ------------------------------------ faceTracking.py:77-161, __main__
NoPupil == <<<<0, 0>>, <<0, 0>>>>
NoFaceFrame == [face |-> FALSE, r |-> NoPupil, l |-> NoPupil]
FaceFrames(xs, ys) ==
    {[face |-> TRUE, r |-> <<rx, ry>>, l |-> <<lx, ly>>] :
        rx \in xs, ry \in ys, lx \in xs, ly \in ys}

\* Normalized pupil coordinates the camera frames are drawn from.
LoopXs == {<<-1, 0>>, <<0, 0>>, <<5, 0>>, <<8, 0>>, <<Den, 0>>, <<Den, 1>>}
LoopYs == {<<2, 0>>, <<8, 0>>}
LoopFrames == {NoFaceFrame} \cup FaceFrames(LoopXs, LoopYs)

Bump(n) == IF n < 2 THEN n + 1 ELSE 2

InitLoop == proj = [nx |-> <<0, 0>>, ny |-> <<0, 0>>, w |-> 1, h |-> 1,
                    called |-> FALSE, px |-> None] /\ InitRest
            /\ ui = "app" /\ InitUi

\* lines 159-161
Cleanup == released' = TRUE

\* lines 78-154 with ret true: one frame read, processed and shown.
LoopFrame(frame) ==
    /\ pc = "read"
    /\ LET res == ProcessFrame(frame, last_mid)
       IN  /\ out' = res.out
           /\ last_mid' = res.last_mid
           /\ seeded' = (seeded \/ res.out.path = "estimate")
           /\ IF res.out.error
              THEN pc' = "done" /\ exit_by' = "error"
              ELSE pc' = "waitkey" /\ exit_by' = exit_by
    /\ since_stop' = IF keyq THEN Bump(since_stop) ELSE since_stop
    /\ UNCHANGED <<widgetVars, proj, keyq, released, uiVars>>

\* lines 78-80 with ret false, then lines 159-161
ReadFail ==
    /\ pc = "read"
    /\ pc' = "done" /\ exit_by' = "read"
    /\ Cleanup
    /\ UNCHANGED <<widgetVars, proj, last_mid, out, keyq, seeded, since_stop, uiVars>>

\* the user presses 'q' in the preview window
PressQ ==
    /\ pc # "done" /\ ~keyq
    /\ keyq' = TRUE
    /\ UNCHANGED <<widgetVars, proj, pc, last_mid, out, released, exit_by, seeded,
                   since_stop, uiVars>>

\* lines 156-161: cv2.waitKey(1) & 0xFF == ord('q')
WaitKey ==
    /\ pc = "waitkey"
    /\ IF keyq
       THEN pc' = "done" /\ exit_by' = "key" /\ Cleanup /\ keyq' = FALSE
       ELSE pc' = "read" /\ UNCHANGED <<exit_by, released, keyq>>
    /\ UNCHANGED <<widgetVars, proj, last_mid, out, seeded, since_stop, uiVars>>

NextLoop ==
    \/ \E frame \in LoopFrames : LoopFrame(frame)
    \/ ReadFail
    \/ PressQ
    \/ WaitKey

SpecLoop == InitLoop /\ [][NextLoop]_vars

\* ------------------------------------------------ the two front ends
\* datetime.now() > self.invalidTime   (app.py:121, 3DTest.py:166)
ArmedAlways(t, expiry) == TRUE
ArmedLate(t, expiry) == t > expiry + ClockStep
Armed(t, expiry) == t > expiry

\* What a directory listing can give: iterdir() raises (ok = FALSE), or the
\* kinds of its entries.
EntryLists ==
    UNION {[1..n -> {"dir", "file"}] : n \in 0..MaxEntries}
Listings ==
    {[ok |-> FALSE, entries |-> <<>>]}
        \cup {[ok |-> TRUE, entries |-> e] : e \in EntryLists}

\* datetime.now() + timedelta(milliseconds=ms)   (app.py:126, 130, 134;
\* 3DTest.py:171, 175)
CooldownExpiryNone(t, ms) == t
CooldownExpiry(t, ms) == t + ms

\* The pose of the update goes to the view: setOffset on every card's
\* shadow (app.py:137-143), camera position and light translation
\* (3DTest.py:162-163, 178-182).
PoseHeld(u, prev) == prev
PoseApplied(u, prev) == u.pose

\* app.py:123 and :127: directionX == 1, elif directionX == -1
NavBranchUnlessLaunch(u) == (u.dx = 1 \/ u.dx = -1) /\ u.dy # 1
NavBranch(u) == u.dx = 1 \/ u.dx = -1

\* only a directory is listed
ListingsOf(kind) ==
    IF kind = "dir" THEN Listings ELSE {[ok |-> TRUE, entries |-> <<>>]}

\* the time update_carousel or launch_app takes
Lags == {0, ClockStep}

\* app.py:69-118 setup_cards: the cards are rebuilt, one per app, and
\* current_index is reset.
setup_cards_index == 0

\* app.py:169-214 launch_app on Darwin.  kind is the selected entry's path:
\* one of the names "Browser", "Terminal", "Settings", or a Path that is a
\* directory ("dir") or a file ("file").  str(Path) is never "Files", so
\* the branch at line 179 is not taken.
launch_app_keeps_index(kind, idx, listing) ==
    IF kind = "dir"
    THEN IF listing.ok
         THEN [apps |-> <<"dir">> \o listing.entries,
               index |-> idx, raised |-> FALSE]
         ELSE [apps |-> <<"dir">>, index |-> idx, raised |-> TRUE]
    ELSE [apps |-> apps, index |-> idx, raised |-> FALSE]
launch_app(kind, idx, listing) ==
    IF kind = "dir"
    THEN IF listing.ok
         THEN [apps |-> <<"dir">> \o listing.entries,
               index |-> setup_cards_index, raised |-> FALSE]
         ELSE [apps |-> <<"dir">>, index |-> idx, raised |-> TRUE]
    ELSE [apps |-> apps, index |-> idx, raised |-> FALSE]

\* app.py:120-143 DesktopApp.handle_tracker_update.  lag is the time that
\* passes between the datetime.now() of the guard and the one of the
\* assignment.  An exception that leaves the slot, and sys.exit, end the
\* program.
DesktopApp_handle_tracker_update(u) ==
    /\ handled' = u
    /\ IF ~Armed(now, invalidTime)
       THEN /\ acted' = "cooling"
            /\ shadow' = PoseApplied(u, shadow)
            /\ UNCHANGED <<now, invalidTime, current_index, apps, exited>>
       ELSE IF NavBranch(u)
       THEN /\ current_index' = (current_index + u.dx) % Len(apps)
            /\ \E lag \in Lags :
                    /\ now' = now + lag
                    /\ invalidTime' = CooldownExpiry(now + lag, NAV_MS)
            /\ acted' = "nav"
            /\ shadow' = PoseApplied(u, shadow)
            /\ UNCHANGED <<apps, exited>>
       ELSE IF u.dy = 1
       THEN \E listing \in ListingsOf(apps[current_index + 1]), lag \in Lags :
            LET r == launch_app(apps[current_index + 1], current_index,
                                listing)
            IN  /\ apps' = r.apps
                /\ current_index' = r.index
                /\ now' = now + lag
                /\ IF r.raised
                   THEN /\ acted' = "crash"
                        /\ exited' = TRUE
                        /\ UNCHANGED <<invalidTime, shadow>>
                   ELSE /\ acted' = "launch"
                        /\ invalidTime' = CooldownExpiry(now + lag, LAUNCH_MS)
                        /\ shadow' = PoseApplied(u, shadow)
                        /\ UNCHANGED exited
       ELSE IF u.dy = -1
       THEN /\ acted' = "exit"
            /\ exited' = TRUE
            /\ UNCHANGED <<now, invalidTime, current_index, apps, shadow>>
       ELSE /\ acted' = "idle"
            /\ shadow' = PoseApplied(u, shadow)
            /\ UNCHANGED <<now, invalidTime, current_index, apps, exited>>

\* 3DTest.py:159-182 SpatialWindow.handle_tracker_update.  launch_app
\* (184-187) only starts a process.
SpatialWindow_handle_tracker_update(u) ==
    /\ handled' = u
    /\ shadow' = PoseApplied(u, shadow)
    /\ UNCHANGED <<apps, exited>>
    /\ IF ~Armed(now, invalidTime)
       THEN /\ acted' = "cooling"
            /\ UNCHANGED <<now, invalidTime, current_index>>
       ELSE IF u.dx # 0
       THEN /\ current_index' = (current_index + u.dx) % Len(apps)
            /\ \E lag \in Lags :
                    /\ now' = now + lag
                    /\ invalidTime' = CooldownExpiry(now + lag, NAV3D_MS)
            /\ acted' = "nav"
       ELSE IF u.dy = 1
       THEN /\ \E lag \in Lags :
                    /\ now' = now + lag
                    /\ invalidTime' = CooldownExpiry(now + lag, LAUNCH3D_MS)
            /\ acted' = "launch"
            /\ UNCHANGED current_index
       ELSE /\ acted' = "idle"
            /\ UNCHANGED <<now, invalidTime, current_index>>

\* The slot connected to data_received (app.py:34, 3DTest.py:77).
handle_tracker_update(u) ==
    IF ui = "app"
    THEN DesktopApp_handle_tracker_update(u)
    ELSE SpatialWindow_handle_tracker_update(u)

Directions == {-1, 0, 1}

\* the clock; only the handlers read it
TickTo(limit) ==
    /\ ~exited
    /\ now + ClockStep <= limit
    /\ now' = now + ClockStep
    /\ UNCHANGED <<widgetVars, proj, loopVars, ui, invalidTime, current_index, apps,
                   shadow, handled, acted, queue, exited>>

\* app.py:217-225 keyPressEvent
keyPressEvent(key) ==
    /\ ~exited /\ ui = "app"
    /\ CASE key = "Right" ->
              /\ current_index' = (current_index + 1) % Len(apps)
              /\ UNCHANGED <<apps, exited, acted>>
         [] key = "Left" ->
              /\ current_index' = (current_index - 1) % Len(apps)
              /\ UNCHANGED <<apps, exited, acted>>
         [] key = "Return" ->
              \E listing \in ListingsOf(apps[current_index + 1]) :
              LET r == launch_app(apps[current_index + 1], current_index,
                                  listing)
              IN  /\ apps' = r.apps
                  /\ current_index' = r.index
                  /\ exited' = r.raised
                  /\ acted' = IF r.raised THEN "crash" ELSE acted
    /\ UNCHANGED <<widgetVars, proj, loopVars, ui, now, invalidTime, shadow, handled,
                   queue>>

\* the user closes the window
Quit ==
    /\ ~exited
    /\ exited' = TRUE
    /\ UNCHANGED <<widgetVars, proj, loopVars, ui, now, invalidTime, current_index, apps,
                   shadow, handled, acted, queue>>

\* ------------------------------ the handlers, fed any update at any time
UiPoses == {Pose(<<0, 12>>, <<20, 12>>), Pose(<<40, 12>>, <<60, 24>>)}
Updates == [pose : UiPoses, dx : Directions, dy : Directions]

Init ==
    /\ proj = [nx |-> <<0, 0>>, ny |-> <<0, 0>>, w |-> 1, h |-> 1,
               called |-> FALSE, px |-> None]
    /\ InitRest
    /\ ui \in {"app", "3DTest"}
    /\ InitUi

\* data_received delivers update u to the slot.
HandleUpdate(u) ==
    /\ ~exited
    /\ handle_tracker_update(u)
    /\ UNCHANGED <<widgetVars, proj, loopVars, ui, queue>>

Tick == TickTo(MaxTime)

Next ==
    \/ Tick
    \/ \E u \in Updates : HandleUpdate(u)
    \/ \E key \in {"Right", "Left", "Return"} : keyPressEvent(key)

Spec == Init /\ [][Next]_vars

\* -------------------- a front end with its tracker thread (app.py:15-20)
\* runTracker, the generator TrackerThread.run iterates, is not among the
\* sources.  It is taken to run the loop body of faceTracking.py on every
\* frame and to yield one (z, y, x, directionX, directionY) per frame that
\* has an estimate: directionX -1 for left, +1 for right, 0 otherwise.  The
\* sources compute no vertical direction, so directionY is 0.
FrameUpdate(o) ==
    [pose |-> o.pose,
     dx |-> IF o.left THEN -1 ELSE IF o.right THEN 1 ELSE 0,
     dy |-> 0]

\* The frames the camera gives: no face; a face whose pupils are 5/Den of
\* the width apart, at three places 5/Den apart.
FaceAt(k) == [face |-> TRUE, r |-> <<<<k, 0>>, <<4, 0>>>>,
              l |-> <<<<k + 5, 0>>, <<4, 0>>>>]
PipeFrames ==
    {NoFaceFrame, FaceAt(0), FaceAt(5), FaceAt(10)}

\* One frame in the tracker thread: the loop body, then
\* self.data_received.emit(*update) (app.py:19-20) when an update is
\* yielded.  The emission is queued to the thread of the window.  Nothing in
\* TrackerThread.run looks at the window's state.
TrackerFrame(frame) ==
    /\ pc = "read"
    /\ LET res == ProcessFrame(frame, last_mid)
       IN  /\ out' = res.out
           /\ last_mid' = res.last_mid
           /\ seeded' = (seeded \/ res.out.path = "estimate")
           /\ IF res.out.error
              THEN pc' = "done" /\ exit_by' = "error"
              ELSE UNCHANGED <<pc, exit_by>>
           /\ IF res.out.path = "estimate"
              THEN /\ Len(queue) < MaxQueue
                   /\ queue' = Append(queue, FrameUpdate(res.out))
              ELSE UNCHANGED queue
    /\ since_stop' = IF exited THEN Bump(since_stop) ELSE since_stop
    /\ UNCHANGED <<widgetVars, proj, keyq, released, ui, now, invalidTime, current_index,
                   apps, shadow, handled, acted, exited>>

\* cap.read() fails: the generator ends and run() returns.
TrackerReadFail ==
    /\ pc = "read"
    /\ pc' = "done" /\ exit_by' = "read"
    /\ Cleanup
    /\ UNCHANGED <<widgetVars, proj, last_mid, out, keyq, seeded, since_stop, uiVars>>

\* The event loop of the window calls the slot with the oldest emission.
Deliver ==
    /\ ~exited
    /\ queue # <<>>
    /\ handle_tracker_update(Head(queue))
    /\ queue' = Tail(queue)
    /\ UNCHANGED <<widgetVars, proj, loopVars, ui>>

\* The process ends after the window has quit (app.py:231, 136): the
\* tracker thread is not asked to stop and not waited for, it ends with
\* the process, wherever it is.
ProcessEnd ==
    /\ exited
    /\ pc = "read"
    /\ pc' = "killed"
    /\ UNCHANGED <<widgetVars, proj, last_mid, out, keyq, released, exit_by, seeded,
                   since_stop, uiVars>>

PipeTick == TickTo(PipeMaxTime)

InitPipe == Init /\ ui = "app"

NextPipe ==
    \/ PipeTick
    \/ \E frame \in PipeFrames : TrackerFrame(frame)
    \/ TrackerReadFail
    \/ Deliver
    \/ Quit
    \/ ProcessEnd

SpecPipe == InitPipe /\ [][NextPipe]_vars

\* ------------------------------------ the renderer, called in any order
otherVars == <<proj, loopVars, uiVars>>
Sides == -1..MaxSide
Ratios == {1, 2}

\* renderer.initialize(), also as called by RenderWidget.initializeGL
\* (main_window.py:56-60), which swallows what it raises
Initialize(fail, icons) ==
    /\ AlreadyInitialized(renderer) \/ contexts < MaxContexts
    /\ LET res == initialize(renderer, contexts, fail, icons)
       IN  /\ renderer' = res.r
           /\ contexts' = res.contexts
           /\ call' = [op |-> "initialize", result |-> res.result]
    /\ UNCHANGED <<tokens, _dragging_token, otherVars>>

\* renderer.resize(), also as called by resizeGL (main_window.py:62-65)
Resize(width, height, ratio) ==
    /\ renderer' = resize(renderer, width, height, ratio)
    /\ call' = [op |-> "resize", result |-> "ok"]
    /\ UNCHANGED <<contexts, tokens, _dragging_token, otherVars>>

\* renderer.set_scene_state (renderer.py:171-173)
SetSceneState(state) ==
    /\ renderer' = [renderer EXCEPT !.scene_state = state]
    /\ call' = [op |-> "set_scene_state", result |-> "ok"]
    /\ UNCHANGED <<contexts, tokens, _dragging_token, otherVars>>

\* renderer.render()
Render ==
    /\ LET res == render(renderer)
       IN  /\ renderer' = res.r
           /\ call' = [op |-> "render", result |-> res.result]
    /\ UNCHANGED <<contexts, tokens, _dragging_token, otherVars>>

\* main_window.py:67-69 paintGL
paintGL ==
    /\ LET res == render([renderer EXCEPT !.scene_state = <<"tokens">>])
       IN  /\ renderer' = res.r
           /\ call' = [op |-> "paintGL", result |-> res.result]
    /\ UNCHANGED <<contexts, tokens, _dragging_token, otherVars>>

\* renderer.release(), also as called by closeEvent (main_window.py:71-73)
Release ==
    /\ renderer' = release(renderer)
    /\ call' = [op |-> "release", result |-> "ok"]
    /\ UNCHANGED <<contexts, tokens, _dragging_token, otherVars>>

InitRender ==
    /\ proj = [nx |-> <<0, 0>>, ny |-> <<0, 0>>, w |-> 1, h |-> 1,
               called |-> FALSE, px |-> None]
    /\ InitRest
    /\ ui = "app" /\ InitUi

NextRender ==
    \/ \E fail \in InitFailures, icons \in IconFiles : Initialize(fail, icons)
    \/ \E width \in Sides, height \in Sides, ratio \in Ratios :
            Resize(width, height, ratio)
    \/ \E state \in {None, <<"tokens">>} : SetSceneState(state)
    \/ Render
    \/ paintGL
    \/ Release

SpecRender == InitRender /\ [][NextRender]_vars

\* --------------------------------- the mouse handlers of the RenderWidget
Buttons == {"LeftButton", "RightButton"}
\* where the pointer can be: on the first token, on the second token, off
\* every token; at the height of the tokens or on their lower edge
MouseXs == {start_x, start_x + spacing, 600}
MouseYs == {start_y, start_y + 40}

\* main_window.py:75-89 mousePressEvent
mousePressEvent(button, mx, my) ==
    /\ IF button # "LeftButton" \/ TopmostHit(tokens, mx, my) = 0
       THEN UNCHANGED <<tokens, _dragging_token>>
       ELSE LET i == TopmostHit(tokens, mx, my)
                grabbed == Grab(tokens, i, mx, my)
            IN  /\ tokens' = Append(Remove(grabbed, grabbed[i]), grabbed[i])
                /\ _dragging_token' = <<tokens[i].icon>>
    /\ UNCHANGED <<renderer, contexts, call, otherVars>>

\* lines 99-100 and 109-110: the highlight of every token
Highlight(ts, mx, my, unlessDragging) ==
    [k \in 1..Len(ts) |->
        [ts[k] EXCEPT !.highlighted =
            (~(unlessDragging /\ ts[k].dragging)) /\ hit_test(ts[k], mx, my)]]

\* main_window.py:91-100 mouseMoveEvent
mouseMoveEvent(mx, my) ==
    /\ LET moved ==
               IF _dragging_token = None
               THEN tokens
               ELSE LET d == Dragged(tokens, _dragging_token)
                    IN  [tokens EXCEPT ![d] =
                            [tokens[d] EXCEPT
                                !.x = mx - tokens[d]._drag_offset_x,
                                !.y = my - tokens[d]._drag_offset_y]]
       IN  tokens' = Highlight(moved, mx, my, TRUE)
    /\ UNCHANGED <<_dragging_token, renderer, contexts, call, otherVars>>

\* main_window.py:102-110 mouseReleaseEvent
mouseReleaseEvent(button, mx, my) ==
    /\ IF button # "LeftButton"
       THEN UNCHANGED <<tokens, _dragging_token>>
       ELSE LET dropped ==
                    IF _dragging_token = None
                    THEN tokens
                    ELSE [tokens EXCEPT ![Dragged(tokens, _dragging_token)] =
                            [@ EXCEPT !.dragging = FALSE]]
            IN  /\ tokens' = Highlight(dropped, mx, my, FALSE)
                /\ _dragging_token' = None
    /\ UNCHANGED <<renderer, contexts, call, otherVars>>

InitMouse == InitRender

NextMouse ==
    \/ \E button \in Buttons, mx \in MouseXs, my \in MouseYs :
            mousePressEvent(button, mx, my)
    \/ \E mx \in MouseXs, my \in MouseYs : mouseMoveEvent(mx, my)
    \/ \E button \in Buttons, mx \in MouseXs, my \in MouseYs :
            mouseReleaseEvent(button, mx, my)

SpecMouse == InitMouse /\ [][NextMouse]_vars

\* ------------------------------------------------ claims on the projection
\* The real number <<k, e>> stands for, compared with 0 and 1.
BelowZero(v) == v[1] < 0 \/ (v[1] = 0 /\ v[2] < 0)
AboveOne(v) == v[1] > Den \/ (v[1] = Den /\ v[2] > 0)
InUnitInterval(v) == ~BelowZero(v) /\ ~AboveOne(v)
\* above 1 by more than the tolerance of math.isclose
AboveOneBeyondTolerance(v) == v[1] > Den
InRange(px, w, h) ==
    /\ px # None
    /\ 0 <= px[1] /\ px[1] <= w - 1
    /\ 0 <= px[2] /\ px[2] <= h - 1

\* C8 as stated: both coordinates in [0,1] give a pixel inside the image, and
\* a coordinate < 0 or > 1 (by any amount) gives None.
C8_Original ==
    proj.called =>
        /\ (InUnitInterval(proj.nx) /\ InUnitInterval(proj.ny))
                => InRange(proj.px, proj.w, proj.h)
        /\ (BelowZero(proj.nx) \/ BelowZero(proj.ny)
             \/ AboveOne(proj.nx) \/ AboveOne(proj.ny)) => proj.px = None

\* C8 amended: both coordinates in [0,1] give a pixel inside the image; a
\* coordinate < 0, or above 1 by more than the tolerance of math.isclose,
\* gives None whatever the other coordinate is; a coordinate above 1 within
\* that tolerance is accepted like 1.0 and still gives a pixel inside the image.
C8_ProjectionValidity ==
    proj.called =>
        /\ (InUnitInterval(proj.nx) /\ InUnitInterval(proj.ny))
                => InRange(proj.px, proj.w, proj.h)
        /\ (BelowZero(proj.nx) \/ BelowZero(proj.ny)
             \/ AboveOneBeyondTolerance(proj.nx)
             \/ AboveOneBeyondTolerance(proj.ny)) => proj.px = None
        /\ proj.px # None => InRange(proj.px, proj.w, proj.h)

\* One axis out of range, the other in range: the whole point is invalid.
C8_Witness ==
    /\ proj.called
    /\ proj.nx = <<Den + 1, 0>>
    /\ InUnitInterval(proj.ny)
    /\ proj.px = None

\* C9: the pixel is floor(normalized * dimension) clamped to dimension - 1 on
\* each axis, never equal to the dimension, and exactly 1.0 maps to
\* dimension - 1.
FloorClamped(p, k, dim) ==
    /\ p <= dim - 1
    /\ p * Den <= k * dim
    /\ p = dim - 1 \/ k * dim < (p + 1) * Den
C9_OffByOneGuard ==
    (proj.called /\ proj.px # None) =>
        /\ proj.px[1] # proj.w /\ proj.px[2] # proj.h
        /\ proj.nx[2] = 0 => FloorClamped(proj.px[1], proj.nx[1], proj.w)
        /\ proj.ny[2] = 0 => FloorClamped(proj.px[2], proj.ny[1], proj.h)
        /\ proj.nx = <<Den, 0>> => proj.px[1] = proj.w - 1
        /\ proj.ny = <<Den, 0>> => proj.px[2] = proj.h - 1

\* project(1.0, 1.0, 100, 100) == (99, 99)
C9_Witness ==
    /\ proj.called
    /\ proj.nx = <<Den, 0>> /\ proj.ny = <<Den, 0>>
    /\ proj.w = 100 /\ proj.h = 100
    /\ proj.px = <<99, 99>>

\* ------------------------------------------------ claims on the frame loop
\* A step that read a frame and ran the loop body on it.
FrameStep ==
    /\ pc = "read"
    /\ pc' = "waitkey" \/ (pc' = "done" /\ exit_by' = "error")
NoGesture(o) == ~o.left /\ ~o.right
Coincident(o) == o.face /\ o.right_px # None /\ o.left_px = o.right_px
BadFrame(o) ==
    ~o.face \/ o.right_px = None \/ o.left_px = None \/ Coincident(o)

\* C3: a valid frame that is the first one, or whose midpoint x is 10 px away
\* from the previous valid frame's, signals neither left nor right; so a run
\* of such frames signals nothing, however far the midpoint drifts.
C3_LeakyDerivative ==
    [][(FrameStep /\ out'.path = "estimate"
        /\ (~seeded \/ Abs(last_mid'[1] - last_mid[1]) = 10))
       => NoGesture(out')]_vars

\* C4: the first frame with a valid midpoint only seeds last_mid and signals
\* neither left nor right, wherever that midpoint is.
C4_FirstFrameGuard ==
    [][(FrameStep /\ ~seeded /\ seeded')
       => (NoGesture(out')
           /\ last_mid' = Midpoint(out'.left_px, out'.right_px))]_vars

\* C6: a frame whose two pupils project to the same pixel yields no
\* estimate: nothing is divided, nothing is raised, no pose and no gesture
\* are produced, last_mid keeps its value and the loop goes on.
C6_CoincidentPupils ==
    [][(FrameStep /\ Coincident(out'))
       => /\ out'.path = "zero"
          /\ ~out'.error /\ exit_by' = exit_by /\ pc' = "waitkey"
          /\ out'.pose = None /\ NoGesture(out')
          /\ last_mid' = last_mid]_vars

\* a coincident frame (two different normalized points, one pixel) after a
\* valid frame
C6_Witness ==
    /\ Coincident(out) /\ out.path = "zero" /\ out.right_px = <<FrameW - 1, 6>>
    /\ seeded /\ last_mid # <<0, 0>>
    /\ pc = "waitkey"

\* C7: no frame ends the loop or raises; every frame is followed by the stop
\* check and the next read; a bad frame (no face, a pupil out of range,
\* coincident pupils) produces no gesture and no pose and leaves last_mid
\* alone; the loop ends only by the stop key or a failed read.
C7_BadFrameSkips ==
    /\ [](exit_by # "error" /\ (pc = "done" => exit_by \in {"read", "key"}))
    /\ [][FrameStep
          => /\ pc' = "waitkey" /\ ~out'.error
             /\ BadFrame(out') => /\ out'.pose = None /\ NoGesture(out')
                                  /\ last_mid' = last_mid
                                  /\ seeded' = seeded]_vars

\* a frame with a pupil out of range was skipped after a valid frame, and
\* the loop went on to its stop check
C7_Witness ==
    /\ out.face /\ out.right_px = None /\ out.left_px # None
    /\ out.path = "nopx"
    /\ seeded /\ last_mid # <<0, 0>>
    /\ pc = "waitkey" /\ exit_by = "none"

\* ------------------------------------------------ claims on the handlers
\* C1: an update handled at a time that is not after the cooldown expiry
\* acts on no gesture, whatever directions it carries: the selected index
\* and the app list stay, nothing is launched, the program does not exit and
\* the expiry is not moved.
C1_CooldownInvariant ==
    [][\A u \in Updates :
          (HandleUpdate(u) /\ now <= invalidTime)
          => /\ current_index' = current_index
             /\ apps' = apps
             /\ invalidTime' = invalidTime
             /\ exited' = exited
             /\ now' = now
             /\ acted' = "cooling"]_vars

\* an update carrying both directions was handled during a running cooldown
C1_Witness ==
    /\ acted = "cooling"
    /\ handled.dx = 1 /\ handled.dy = 1
    /\ invalidTime >= NAV_MS
    /\ now <= invalidTime

\* ------------------------- claims on a front end with its tracker thread
TrackerStep == \E frame \in PipeFrames : TrackerFrame(frame)

\* C2: on a seeded last midpoint, a frame whose midpoint x jumps by more
\* than the threshold (20 px with the frames drawn here) emits exactly one
\* update, carrying one direction; delivered while armed, an update with a
\* direction moves the selection once and starts the cooldown; delivered
\* before the cooldown has elapsed it does nothing; and the expiry only
\* moves when a gesture fires.
C2_Debounce ==
    /\ [][(TrackerStep /\ seeded /\ out'.path = "estimate"
           /\ Abs(last_mid'[1] - last_mid[1]) > THRESHOLD_PX)
          => /\ queue' = Append(queue, queue'[Len(queue')])
             /\ queue'[Len(queue')].dx
                    = (IF last_mid'[1] > last_mid[1] THEN 1 ELSE -1)]_vars
    /\ [][(Deliver /\ Head(queue).dx # 0)
          => IF now > invalidTime
             THEN /\ acted' = "nav"
                  /\ current_index'
                        = (current_index + Head(queue).dx) % Len(apps)
                  /\ invalidTime' >= now + NAV_MS
             ELSE /\ acted' = "cooling"
                  /\ current_index' = current_index
                  /\ invalidTime' = invalidTime]_vars
    /\ [][invalidTime' # invalidTime
          => (Deliver /\ now > invalidTime /\ acted' \in {"nav", "launch"})]_vars

\* a jump fired, and the update of a further jump was delivered before the
\* cooldown had elapsed and did nothing
C2_Witness ==
    /\ acted = "cooling"
    /\ handled.dx # 0
    /\ invalidTime >= NAV_MS
    /\ now <= invalidTime
    /\ current_index = 1
    /\ seeded

\* C5: a frame without a face emits no update and changes nothing the next
\* gesture decision reads: last_mid, the cooldown expiry and the rest of the
\* handler's state are the same after it as before it.
C5_NoFaceIsFrameSkip ==
    [][(TrackerStep /\ ~out'.face)
       => /\ out'.path = "noface"
          /\ queue' = queue
          /\ last_mid' = last_mid
          /\ seeded' = seeded
          /\ invalidTime' = invalidTime
          /\ UNCHANGED <<now, current_index, apps, handled, acted>>]_vars

\* a frame without a face, after valid frames, while a cooldown is running
C5_Witness ==
    /\ out.path = "noface"
    /\ seeded /\ last_mid # <<0, 0>>
    /\ acted = "nav"
    /\ now <= invalidTime

\* C10: once the stop is raised the producer stops at the next frame
\* boundary: at most the frame in progress is completed, and a producer
\* that has ended has released the camera.
C10_CleanStop ==
    /\ since_stop <= 1
    /\ pc \in {"done", "killed"} => released

\* ------------------------------------------------ claims on the cooldown
\* The cooldown a front end starts for what it did.
CooldownOf(front, what) ==
    IF front = "app"
    THEN (IF what = "nav" THEN NAV_MS ELSE LAUNCH_MS)
    ELSE (IF what = "nav" THEN NAV3D_MS ELSE LAUNCH3D_MS)
\* The handler acted on a gesture.
Fired(what) == what \in {"nav", "launch", "crash", "exit"}
\* The directions a front end acts on when armed.
ActsOn(front, u) ==
    u.dx # 0 \/ u.dy = 1 \/ (front = "app" /\ u.dy = -1)

\* What C11 says of the expiry: a gesture that fires at time t (the time
\* the handler reads when it sets the expiry) with cooldown d sets the expiry
\* to t + d; nothing else moves the expiry; and every update handled after
\* the expiry finds the handler armed.
ExpiryIsWallClock ==
    /\ [][\A u \in Updates :
             (HandleUpdate(u) /\ acted' \in {"nav", "launch"})
             => /\ now < invalidTime'
                /\ invalidTime' = now' + CooldownOf(ui, acted')]_vars
    /\ [][invalidTime' # invalidTime
          => \E u \in Updates :
                /\ HandleUpdate(u)
                /\ now > invalidTime
                /\ acted' \in {"nav", "launch"}]_vars
    /\ [][\A u \in Updates :
             (HandleUpdate(u) /\ now > invalidTime) => acted' # "cooling"]_vars

\* C11 as stated: the expiry is wall-clock based as above, and every update
\* with a nonzero direction that is handled after the expiry fires.
C11_Original ==
    /\ ExpiryIsWallClock
    /\ [][\A u \in Updates :
             (HandleUpdate(u) /\ now > invalidTime /\ (u.dx # 0 \/ u.dy # 0))
             => Fired(acted')]_vars

\* C11 amended: the expiry is wall-clock based as above, and every update
\* handled after the expiry that carries a direction the front end acts on
\* (a nonzero directionX, directionY == 1, and in app.py directionY == -1)
\* fires; 3DTest.py does nothing on directionY == -1 alone.
C11_Rearm ==
    /\ ExpiryIsWallClock
    /\ [][\A u \in Updates :
             (HandleUpdate(u) /\ now > invalidTime)
             => (Fired(acted') <=> ActsOn(ui, u))]_vars

\* a navigation fired, its cooldown ran out, and the next direction fired
\* again (3DTest.py, where only navigations move the index)
C11_Witness ==
    /\ ui = "3DTest"
    /\ acted = "nav" /\ handled.dx = 1
    /\ current_index = 2
    /\ invalidTime = now + NAV3D_MS
    /\ now > NAV3D_MS

\* C12: an update handled while the cooldown is running still applies its
\* pose to the view, and acts on neither of its directions: no navigation,
\* no launch, no exit, and the selected index, the app list and the expiry
\* stay as they are.
C12_PoseWhileCooling ==
    [][\A u \in Updates :
          (HandleUpdate(u) /\ ~(now > invalidTime))
          => /\ shadow' = u.pose
             /\ ~Fired(acted')
             /\ UNCHANGED <<current_index, apps, exited, invalidTime>>]_vars

\* a "down" update handled during a cooldown: its pose is on the view and
\* the program has not exited
C12_Witness ==
    /\ acted = "cooling"
    /\ handled.dx = 0 /\ handled.dy = -1
    /\ shadow = handled.pose
    /\ now <= invalidTime /\ invalidTime >= NAV_MS
    /\ ~exited

\* C13: the two axes have cooldowns of their own.  While only the cooldown
\* of a navigation is running, an update carrying directionY == 1 alone
\* still launches; while only the cooldown of a launch is running, an
\* update carrying a horizontal direction still navigates.
C13_SeparateChannels ==
    [][\A u \in Updates :
          (HandleUpdate(u) /\ now <= invalidTime)
          => /\ (acted = "nav" /\ u.dx = 0 /\ u.dy = 1)
                    => acted' \in {"launch", "crash"}
             /\ (acted = "launch" /\ u.dx # 0) => acted' = "nav"]_vars

\* ------------------------------------------- claims on the midpoint series
\* C15: every frame with a valid estimate sets last_mid to its midpoint,
\* whatever the handler's cooldown state is and whether or not the frame
\* signalled a gesture, and its delta is taken against the last_mid the
\* preceding valid frame left; nothing but such a frame changes last_mid.
C15_LastMidUpdate ==
    /\ [][(TrackerStep /\ out'.path = "estimate")
          => /\ last_mid' = Midpoint(out'.left_px, out'.right_px)
             /\ out'.delta = <<last_mid[1] - last_mid'[1]>>]_vars
    /\ [][last_mid' # last_mid
          => (TrackerStep /\ out'.path = "estimate")]_vars

\* a frame that signalled left was processed while the cooldown of an
\* earlier navigation was running, and last_mid is that frame's midpoint
C15_Witness ==
    /\ acted = "nav" /\ now <= invalidTime
    /\ out.path = "estimate" /\ out.left
    /\ seeded
    /\ last_mid = Midpoint(out.left_px, out.right_px)
    /\ queue # <<>>

\* C16: with d = last_mid.x - mid.x, a frame with an estimate signals left
\* exactly when d > 15 and right exactly when d < -15, never both; the y
\* coordinates play no part.
C16_DirectionRule ==
    [][(FrameStep /\ out'.path = "estimate")
       => LET d == last_mid[1] - Midpoint(out'.left_px, out'.right_px)[1]
          IN  /\ out'.left <=> d > THRESHOLD_PX
              /\ out'.right <=> d < -THRESHOLD_PX
              /\ ~(out'.left /\ out'.right)]_vars

\* a frame whose midpoint moved right by exactly the threshold: nothing
\* signalled
C16_Witness ==
    /\ out.path = "estimate"
    /\ out.delta = <<-THRESHOLD_PX>>
    /\ NoGesture(out)
    /\ pc = "waitkey"

\* --------------------------------------------- claims on the carousel
\* C17: while the front end runs, the app list is not empty and
\* current_index is an index of it; a launch that replaces the app list
\* leaves current_index at 0; a navigation, by gesture or by key, moves the
\* index by +1 or -1 modulo the length of the list and keeps the list.
C17_CarouselIndex ==
    /\ [](~exited => (Len(apps) >= 1 /\ current_index \in 0..(Len(apps) - 1)))
    /\ [][(apps' # apps /\ ~exited') => current_index' = 0]_vars
    /\ [][\A u \in Updates :
             (HandleUpdate(u) /\ acted' = "nav")
             => /\ u.dx \in {-1, 1}
                /\ current_index' = (current_index + u.dx) % Len(apps)
                /\ apps' = apps]_vars
    /\ [][/\ keyPressEvent("Right")
               => (current_index' = (current_index + 1) % Len(apps)
                   /\ apps' = apps)
          /\ keyPressEvent("Left")
               => (current_index' = (current_index - 1) % Len(apps)
                   /\ apps' = apps)]_vars

\* the app list was replaced by a directory listing of two entries and a
\* navigation left wrapped around to its last entry
C17_Witness ==
    /\ ui = "app" /\ ~exited
    /\ Len(apps) = 2 /\ apps[1] = "dir"
    /\ acted = "nav" /\ handled.dx = -1
    /\ current_index = 1

\* C18: an update handled while armed does at most one thing, picked in
\* the order directionX, directionY == 1, directionY == -1: with a nonzero
\* directionX it only navigates, even if it carries directionY == 1 too;
\* a navigation or a launch that returns sets the expiry to the time then
\* read plus its duration; an update with both directions 0 does nothing
\* and leaves the expiry.
C18_OneActionPerUpdate ==
    [][\A u \in Updates :
          (HandleUpdate(u) /\ now > invalidTime)
          => /\ u.dx # 0
                  => /\ acted' = "nav"
                     /\ apps' = apps /\ exited' = exited
                     /\ invalidTime' = now' + CooldownOf(ui, "nav")
             /\ (u.dx = 0 /\ u.dy = 1)
                  => /\ acted' \in {"launch", "crash"}
                     /\ acted' = "launch"
                          => /\ invalidTime' = now' + CooldownOf(ui, "launch")
                             /\ exited' = exited
                     /\ current_index' \in {current_index, 0}
             /\ (u.dx = 0 /\ u.dy = -1)
                  => /\ acted' = (IF ui = "app" THEN "exit" ELSE "idle")
                     /\ UNCHANGED <<current_index, apps, invalidTime>>
             /\ (u.dx = 0 /\ u.dy = 0)
                  => /\ acted' = "idle"
                     /\ UNCHANGED <<current_index, apps, invalidTime,
                                    exited>>]_vars

\* an update carrying directionX == 1 and directionY == 1 was handled while
\* armed on the "Files" entry's neighbour: it navigated, nothing was listed
C18_Witness ==
    /\ ui = "app"
    /\ acted = "nav"
    /\ handled.dx = 1 /\ handled.dy = 1
    /\ current_index = 2
    /\ apps = InitialApps
    /\ invalidTime = now + NAV_MS

\* ------------------------------------------------ claims on the renderer
InitializeStep == \E fail \in InitFailures, icons \in IconFiles :
                      Initialize(fail, icons)
Built(r) ==
    /\ {"token", "border"} \subseteq DOMAIN r.programs
    /\ {"token", "border"} \subseteq DOMAIN r.vaos
    /\ {"quad", "quad_ibo"} \subseteq DOMAIN r.vbos
Empty(r) ==
    /\ r.programs = EmptyDict /\ r.vaos = EmptyDict /\ r.vbos = EmptyDict
    /\ r.textures = EmptyDict /\ r.framebuffers = EmptyDict

\* C14: once initialize() has succeeded and release() has not been called
\* since, a further initialize() changes no field of the renderer (ctx,
\* programs, vaos, vbos, textures, framebuffers included) and creates no
\* context.
C14_InitializeIdempotent ==
    [][(InitializeStep /\ renderer.initialized)
       => /\ renderer' = renderer
          /\ contexts' = contexts
          /\ call'.result = "noop"]_vars

\* initialize() was called again on an initialized renderer: still the first
\* context, with everything it built
C14_Witness ==
    /\ call = [op |-> "initialize", result |-> "noop"]
    /\ renderer.initialized /\ renderer.ctx = 1 /\ contexts = 1
    /\ Built(renderer)
    /\ DOMAIN renderer.textures = _ICON_NAMES

\* C19: between calls, ctx is set exactly when _initialized is true;
\* render() raises RuntimeError when the renderer is not initialized and
\* otherwise runs with all programs and geometry built; after release()
\* the collections are empty and ctx is None; an initialize() that returns
\* leaves everything built.
C19_RendererLifecycle ==
    /\ []((renderer.ctx # 0) <=> renderer.initialized)
    /\ [][(Render \/ paintGL)
          => IF renderer.initialized
             THEN call'.result \in {"drew", "nothing"} /\ Built(renderer)
             ELSE call'.result = "RuntimeError"]_vars
    /\ [][Release => (Empty(renderer') /\ renderer'.ctx = 0)]_vars
    /\ [][(InitializeStep /\ call'.result = "ok")
          => (Built(renderer') /\ renderer'.initialized)]_vars

\* ------------------------------------------- claims on the mouse handlers
Icons(ts) == {ts[i].icon : i \in 1..Len(ts)}
\* the order of the tokens other than the one with this icon
Others(ts, icon) == SelectSeq(ts, LAMBDA t : t.icon # icon)
IconsOf(ts) == [i \in 1..Len(ts) |-> ts[i].icon]
LeftPressHit == \E mx \in MouseXs, my \in MouseYs :
                    /\ mousePressEvent("LeftButton", mx, my)
                    /\ TopmostHit(tokens, mx, my) # 0
LeftRelease == \E mx \in MouseXs, my \in MouseYs :
                   mouseReleaseEvent("LeftButton", mx, my)

\* the tokens stay a permutation of the initial ones, and a press moves the
\* token it hits to the end and keeps the order of the others
TokensPermuted ==
    /\ [](Len(tokens) = Len(ICONS) /\ Icons(tokens) = Icons(_create_tokens))
    /\ [][LeftPressHit
          => /\ <<tokens'[Len(tokens')].icon>> = _dragging_token'
             /\ IconsOf(Others(tokens', _dragging_token'[1]))
                    = IconsOf(Others(tokens, _dragging_token'[1]))]_vars

\* C20: a token has dragging == True exactly when it is the widget's
\* _dragging_token, so at most one token is dragging; after a left-button
\* release no token is dragging; and the tokens are permuted as above.
C20_DragState ==
    /\ [](\A i \in 1..Len(tokens) :
            tokens[i].dragging <=> (_dragging_token = <<tokens[i].icon>>))
    /\ [][LeftRelease
          => \A i \in 1..Len(tokens') : ~tokens'[i].dragging]_vars
    /\ TokensPermuted

====
